---- MODULE Spec2Model ----
(***************************************************************************)
(* Snapshot creation pipeline of final_snap_scripts.                       *)
(*                                                                         *)
(* Two scripts implement the same orchestrator and both are modelled:      *)
(*   "v20240811"  src/create_snap-v20240811.py  (create_task + gather,     *)
(*                HTTP command runner with backoff, aiofiles appends)      *)
(*   "snapy"      src/create_snapy.py + src/common.py  (process_vm is      *)
(*                awaited in line, subprocess command runner)              *)
(* Definitions prefixed V_ model the first script, Y_ the second.          *)
(* A run is one execution of async_main / main on one input list.          *)
(***************************************************************************)
EXTENDS Integers, Sequences, FiniteSets, TLC

\* ------------------------------------------------------------ bounds
MaxVMs == 3
MaxPermits == 2
\* commands of one run whose first attempt meets a transport fault
\* (HTTP status, ClientError, launch exception)
MaxFaults == 1
\* last second that the wall clock reaches during one run
MaxClock == 2
\* input lines of the runs over which the wall clock advances (SpecClock)
MaxClockVMs == 2
\* input lines handed to group_vms_by_subscription alone (SpecGroup)
MaxGroupLen == 4
\* input lines of the runs that start before the grouping (SpecInput)
MaxRawLen == 2
\* invocations of main in one process, and input lines of each (SpecRerun)
MaxRuns == 2
MaxRerunVMs == 1
\* lines of the snapshot list handed to a validate script (SpecValidate)
MaxListLen == 3

\* ------------------------------------------------- program constants
\* backoff.on_exception(..., max_tries=3)
MaxTries == 3
\* semaphore = asyncio.Semaphore(10) of create_snapy.py
SnapySemaphore == 10

\* ------------------------------------------------------------ inputs
Subs == {"S1", "S2"}
Names == {"h1", "h2"}
Variants == {"v20240811", "snapy"}

\* A resource id is kept as the list produced by resource_id.split("/"):
\* "/subscriptions/S1/vm" is <<"", "subscriptions", "S1", "vm">>.
ResourceId(s) == <<"", "subscriptions", s, "vm">>

\* One parsed input line: line.rsplit(None, 1) gives (resource_id, vm_name).
Lines == {[rid |-> ResourceId(s), name |-> n] : s \in Subs, n \in Names}

\* A line whose resource id splits into fewer than 3 segments: "/subscriptions".
ShortLines == {[rid |-> <<"", "subscriptions">>, name |-> n] : n \in Names}

SeqsUpTo(S, n) == UNION {[1..k -> S] : k \in 1..n}

\* The input lists: every assignment of subscriptions to 1..MaxVMs lines; the
\* vm names alternate, so that a list of three lines has a name that occurs
\* twice and a name that occurs once.
NameAt(i) == IF i % 2 = 1 THEN "h1" ELSE "h2"
\* The input lists handed to group_vms_by_subscription alone: any lines.
GroupInputs == SeqsUpTo(Lines, MaxGroupLen)
InputLists == {l \in SeqsUpTo(Lines, MaxVMs) : \A i \in 1..Len(l) : l[i].name = NameAt(i)}
\* The lists read from snapshot_vmlist.txt, short resource ids included.
RawInputs ==
    {l \in SeqsUpTo(Lines \cup ShortLines, MaxRawLen) : \A i \in 1..Len(l) : l[i].name = NameAt(i)}

\* Content of snap_rid_list.txt before the run: one line of an earlier run.
OldLine == <<"id", <<"RH", "old", 0>>>>
InitialFile == <<OldLine>>

VARIABLES
    variant,               \* which script runs
    vm_list,               \* the input lines
    grouped_vms,           \* result of group_vms_by_subscription
    capacity,              \* initial value of the semaphore
    semaphore,             \* current value of the semaphore (free permits)
    pc,                    \* position of async_main / main
    gi,                    \* index of the current subscription group
    vi,                    \* index of the current VM inside the group
    tries,                 \* attempts made for the command the main coroutine awaits
    task,                  \* per input line: state of its process_vm call
    task_tries,            \* per input line: attempts made for its create command
    appenders,             \* process_vm calls that hold snap_rid_list.txt open
    successful_snapshots,  \* list of (vm_name, snapshot_name)
    failed_snapshots,      \* list of (vm_name, reason)
    snap_rid_file,         \* lines of snap_rid_list.txt
    faults,                \* history: number of commands hit by a transport fault
    sw_log,                \* history: subscriptions of the account-set commands issued
    sw_res,                \* history: last result of the account-set command per group
    det_issued,            \* history: number of vm-show commands issued per line
    det_res,               \* history: last result of the vm-show command per line
    cre_issued,            \* history: number of snapshot-create commands issued per line
    cre_res,               \* history: last result of the snapshot-create command per line
    cre_err,               \* history: stderr of the last non-zero snapshot-create per line
    clock,                 \* wall clock, in seconds, when it was last read
    TIMESTAMP,             \* common.TIMESTAMP, set when common.py is imported
    timestamp,             \* per input line: local timestamp of process_vm (v20240811)
    test,                  \* run of validate_snapshot.test.py: position, import, object
    vm_details,            \* local of async_main / main: the parsed answer of az vm show
    vm_info,               \* per input line: the details handed to its process_vm call
    cre_args,              \* history: the details named in the create command per line
    summary,               \* the counts reported by the final summary
    run,                   \* number of the invocation of main in this process
    started,               \* lengths of the two outcome lists when this run began
    val                    \* run of a validate script: position, locals, the two files

vars == <<variant, vm_list, grouped_vms, capacity, semaphore, pc, gi, vi, tries,
          task, task_tries, appenders, successful_snapshots, failed_snapshots,
          snap_rid_file, faults, sw_log, sw_res, det_issued, det_res,
          cre_issued, cre_res, cre_err, clock, TIMESTAMP, timestamp, test,
          vm_details, vm_info, cre_args, summary, run, started,
          val>>

\* ------------------------------------------------------- pure helpers

\* subscription_id = resource_id.split("/")[2]
SubscriptionOf(line) == line.rid[3]

\* grouped_vms[subscription_id].append((resource_id, vm_name)) on a defaultdict
\* that keeps insertion order: the dict is a list of [key, vms] entries and a
\* tuple is kept as the index of its line in vm_list.
\* A grouping that keeps one copy of equal (resource_id, vm_name) tuples.
DictAppend_dedup(d, key, i) ==
    IF \E k \in 1..Len(d) : d[k].key = key
    THEN [k \in 1..Len(d) |->
              IF d[k].key = key /\ \A j \in 1..Len(d[k].vms) : vm_list[d[k].vms[j]] # vm_list[i]
              THEN [d[k] EXCEPT !.vms = Append(@, i)] ELSE d[k]]
    ELSE Append(d, [key |-> key, vms |-> <<i>>])

\* A grouping that puts the tuple at the front of its list.
DictAppend_front(d, key, i) ==
    IF \E k \in 1..Len(d) : d[k].key = key
    THEN [k \in 1..Len(d) |->
              IF d[k].key = key THEN [d[k] EXCEPT !.vms = <<i>> \o @] ELSE d[k]]
    ELSE Append(d, [key |-> key, vms |-> <<i>>])

DictAppend(d, key, i) ==
    IF \E k \in 1..Len(d) : d[k].key = key
    THEN [k \in 1..Len(d) |->
              IF d[k].key = key THEN [d[k] EXCEPT !.vms = Append(@, i)] ELSE d[k]]
    ELSE Append(d, [key |-> key, vms |-> <<i>>])

\* The IndexError of resource_id.split("/")[2] on fewer than 3 segments, as
\* the result of the grouping that raised it.
IndexError == <<[key |-> "IndexError", vms |-> <<>>]>>

\* A grouping that passes over the lines with a short resource id.
RECURSIVE GroupFrom_skipping(_, _, _)
GroupFrom_skipping(list, i, d) ==
    IF i > Len(list) THEN d
    ELSE IF Len(list[i].rid) < 3 THEN GroupFrom_skipping(list, i + 1, d)
    ELSE GroupFrom_skipping(list, i + 1, DictAppend(d, SubscriptionOf(list[i]), i))

RECURSIVE GroupFrom(_, _, _)
GroupFrom(list, i, d) ==
    IF i > Len(list) THEN d
    ELSE IF Len(list[i].rid) < 3 THEN IndexError
    ELSE GroupFrom(list, i + 1, DictAppend(d, SubscriptionOf(list[i]), i))

group_vms_by_subscription(list) == GroupFrom(list, 1, <<>>)

\* What datetime.datetime.now().strftime("%Y%m%d%H%M%S") may return: the
\* second of the last reading or a later one.
Now == clock..MaxClock

\* snapshot_name = f"RH_{chg_number}_{vm_name}_{timestamp}" with the local
\* timestamp of process_vm (create_snap-v20240811.py) or
\* f"RH_{chg_number}_{vm_name}_{TIMESTAMP}" (create_snapy.py)
SnapshotName(i) ==
    <<"RH", vm_list[i].name, IF variant = "snapy" THEN TIMESTAMP ELSE timestamp[i]>>

\* The 'id' field of the response of "az snapshot create --name <snapshot_name>".
SnapshotId(i) == <<"id", SnapshotName(i)>>

\* A group failure that assigns the list of its failures to failed_snapshots.
AppendAll_assigning(failed, vms, reason) ==
    [k \in 1..Len(vms) |-> <<vm_list[vms[k]].name, reason>>]

RECURSIVE AppendAll(_, _, _)
\* for _, vm_name in vms: failed_snapshots.append((vm_name, reason))
AppendAll(failed, vms, reason) ==
    IF vms = <<>> THEN failed
    ELSE AppendAll(Append(failed, <<vm_list[Head(vms)].name, reason>>), Tail(vms), reason)

CurGroup == grouped_vms[gi]
CurVM == CurGroup.vms[vi]

Idx == 1..Len(vm_list)


\* States of a process_vm call.  "none": not called; "ready": called, not yet
\* past "async with semaphore"; "creating": create command in flight;
\* "opening" / "writing" / "closing": inside write_snapshot_rid (aiofiles open
\* requested / file open, write requested / line written, close requested);
\* "done": returned; "raised": ended with an exception; "cancelled": cancelled
\* when asyncio.run tore the loop down.
Holding == {"creating", "opening", "writing", "closing"}
Pending == Holding \cup {"ready"}

\* ----------------------------------------------------- command runner

\* What one attempt at an external command can produce.  "ok": exit status 0
\* and a JSON body with the fields read by the caller; "noid": exit status 0,
\* JSON object without 'id'; "malformed": exit status 0, body that json.loads
\* or the field access rejects; "nonzero": exit status other than 0;
\* "http_error": HTTP status other than 200 (v20240811); "client_error":
\* aiohttp.ClientError (v20240811); "launch_error": exception from
\* create_subprocess_shell / communicate (common.py).
Bodies(cmd) ==
    CASE cmd = "switch" -> {"ok"}
      [] cmd = "detail" -> {"ok", "malformed"}
      [] cmd = "create" -> {"ok", "noid", "malformed"}

Faults == {"http_error", "client_error", "launch_error"}
\* What a failing command writes to stderr.
Stderrs == {"e1", "e2"}
V_Responses(cmd) == Bodies(cmd) \cup {"nonzero", "http_error", "client_error"}
Y_Responses(cmd) == Bodies(cmd) \cup {"nonzero", "launch_error"}

\* The environment answers attempt n of a command with resp.
Answers(resp, n) ==
    /\ (resp \in Faults /\ n = 1) => faults < MaxFaults
    /\ faults' = IF resp \in Faults /\ n = 1 THEN faults + 1 ELSE faults

\* A runner that raises for a command that exits non-zero.
V_run_az_command_raising(resp, n) ==
    CASE resp = "client_error" -> IF n < MaxTries THEN "retry" ELSE "raise_ClientError"
      [] resp = "http_error" -> "raise_AzureCommandError"
      [] resp = "nonzero" -> "raise_ClientError"
      [] OTHER -> "return0"

\* run_az_command of create_snap-v20240811.py under
\* @backoff.on_exception(backoff.expo, aiohttp.ClientError, max_tries=3);
\* n is the number of the attempt that produced resp.
V_run_az_command(resp, n) ==
    CASE resp = "client_error" -> IF n < MaxTries THEN "retry" ELSE "raise_ClientError"
      [] resp = "http_error" -> "raise_AzureCommandError"
      [] resp = "nonzero" -> "return_nonzero"
      [] OTHER -> "return0"

\* run_az_command of common.py: every exception becomes (None, str(e), 1).
Y_run_az_command(resp) ==
    CASE resp = "launch_error" -> "return_nonzero"
      [] resp = "nonzero" -> "return_nonzero"
      [] OTHER -> "return0"

\* ------------------------------------------------------------ reasons
\* str(e) of the AzureCommandError raised in create_snap-v20240811.py
V_SwitchError(resp, sub) ==
    IF resp = "nonzero" THEN <<"Failed to set subscription ID", sub>>
    ELSE <<"Command failed: az account set", sub>>
V_DetailError(resp, i) ==
    IF resp = "nonzero" THEN <<"Failed to get VM details", vm_list[i].name>>
    ELSE <<"Command failed: az vm show", vm_list[i].name>>
\* f"Failed to create snapshot for VM: {vm_name}. Error: {stderr}"
V_CreateError(resp, i, stderr) ==
    IF resp = "nonzero" THEN <<"Failed to create snapshot", vm_list[i].name, stderr>>
    ELSE <<"Command failed: az snapshot create", vm_list[i].name>>
V_NoIdError == <<"Failed to extract snapshot ID">>

\* reason strings of create_snapy.py
Y_SwitchError == <<"Failed to set subscription">>
Y_DetailError == <<"Failed to get VM details">>
Y_CreateError == <<"Failed to create snapshot">>
\* A missing id reported with the reason of a failed create command.
Y_NoIdError_as_create_failure == <<"Failed to create snapshot">>
Y_NoIdError == <<"Failed to extract snapshot ID">>

\* The answer of "az vm show --ids <resource_id> --query {resourceGroup, diskId}"
\* for an input line: the resource group and the OS disk of that VM.
Details(line) ==
    [resourceGroup |-> <<"rg", line.rid[3]>>, diskId |-> <<"disk", line.rid[3], line.name>>]
NoDetails == [resourceGroup |-> <<"rg", "">>, diskId |-> <<"disk", "", "">>]

\* No summary has been reported yet.
NoSummary == [reported |-> FALSE, table_total |-> 0, file_total |-> 0,
              successful |-> 0, failed |-> 0]

\* No validate script is run.
NoVal == [pc |-> "none", script |-> "", snapshot_ids |-> <<>>, total_snapshots |-> 0,
          resp |-> <<>>, result |-> <<>>, finished |-> <<>>,
          validated_snapshots |-> <<>>, valid |-> 0, invalid |-> 0,
          list_file |-> <<>>, invalid_file |-> <<>>]

\* --------------------------------------------------------------- Init
\* validate_snapshot.test.py is not run.
NoTest == [pc |-> "none", module |-> "", args |-> <<>>,
           spinner |-> [name |-> "", style |-> ""], error |-> ""]

\* The module globals and the locals of async_main / main before the loop.
Globals ==
    /\ capacity \in (IF variant = "snapy" THEN {SnapySemaphore} ELSE 1..MaxPermits)
    /\ semaphore = capacity
    /\ gi = 1
    /\ vi = 1
    /\ tries = 0
    /\ task = [i \in 1..Len(vm_list) |-> "none"]
    /\ task_tries = [i \in 1..Len(vm_list) |-> 0]
    /\ appenders = {}
    /\ successful_snapshots = <<>>
    /\ failed_snapshots = <<>>
    /\ snap_rid_file = InitialFile
    /\ faults = 0
    /\ sw_log = <<>>
    /\ sw_res = [g \in 1..Len(grouped_vms) |-> "none"]
    /\ det_issued = [i \in 1..Len(vm_list) |-> 0]
    /\ det_res = [i \in 1..Len(vm_list) |-> "none"]
    /\ cre_issued = [i \in 1..Len(vm_list) |-> 0]
    /\ cre_res = [i \in 1..Len(vm_list) |-> "none"]
    /\ cre_err = [i \in 1..Len(vm_list) |-> ""]
    \* 0: process_vm has not computed its timestamp yet
    /\ timestamp = [i \in 1..Len(vm_list) |-> 0]
    /\ vm_details = NoDetails
    /\ vm_info = [i \in 1..Len(vm_list) |-> NoDetails]
    /\ cre_args = [i \in 1..Len(vm_list) |-> NoDetails]
    /\ summary = NoSummary
    /\ run = 1
    /\ started = [successful |-> 0, failed |-> 0]

\* The state at the entry of a create script: no validate script runs.
NotValidating == val = NoVal

\* The state at the entry of async_main / main, the clock apart.
Start ==
    /\ variant \in Variants
    /\ vm_list \in InputLists
    /\ grouped_vms = group_vms_by_subscription(vm_list)
    /\ pc = "switch"
    /\ Globals
    /\ NotValidating
    /\ test = NoTest

\* A run that starts in the last second: every reading of the clock agrees.
Init ==
    /\ Start
    /\ clock = MaxClock
    /\ TIMESTAMP = clock

\* A run of at most MaxClockVMs lines that starts in second 1: the clock may
\* advance between two readings.
InitClock ==
    /\ Start
    /\ Len(vm_list) <= MaxClockVMs
    /\ clock = 1
    /\ TIMESTAMP = clock

input == <<variant, vm_list, grouped_vms, capacity, test, run, started, val>>
history == <<sw_log, sw_res, det_issued, det_res, cre_issued, cre_res, cre_err>>
outcomes == <<successful_snapshots, failed_snapshots, snap_rid_file>>
tasks == <<task, task_tries, appenders, semaphore>>
clocks == <<clock, TIMESTAMP>>
details == <<vm_details, vm_info>>
\* what no step but the clock reading of process_vm changes
fixed == <<input, clocks, timestamp>>

\* An uncaught exception leaves async_main / main: asyncio.run cancels every
\* task that is still pending; a cancelled process_vm leaves "async with
\* semaphore" (release) and "async with aiofiles.open" (close).  A write
\* that was requested and has not completed ("writing") is taken as not
\* performed.
CancelPending ==
    /\ task' = [i \in Idx |-> IF task[i] \in Pending THEN "cancelled" ELSE task[i]]
    /\ semaphore' = semaphore + Cardinality({i \in Idx : task[i] \in Holding})
    /\ appenders' = {}
    /\ UNCHANGED task_tries

Crash ==
    /\ pc' = "crashed"
    /\ CancelPending


\* ===================================================================
\* create_snap-v20240811.py
\* ===================================================================
V == variant = "v20240811"

\* The event loop runs a task only while async_main is suspended in an await.
V_MainSuspended == pc \in {"switch_wait", "detail_wait", "gather", "summary"}

\* except AzureCommandError as e: every VM of the group gets (vm_name, str(e)),
\* then the for loop goes on with the next group.
V_GroupFailed(reason) ==
    /\ failed_snapshots' = AppendAll(failed_snapshots, CurGroup.vms, reason)
    /\ gi' = gi + 1
    /\ vi' = 1
    /\ pc' = "switch"

\* await run_az_command(session, f"az account set --subscription {subscription_id}")
V_SwitchIssue ==
    /\ V
    /\ pc = "switch"
    /\ gi <= Len(grouped_vms)
    /\ sw_log' = Append(sw_log, CurGroup.key)
    /\ tries' = 1
    /\ pc' = "switch_wait"
    /\ UNCHANGED <<fixed, details, cre_args, summary, faults, tasks, outcomes, gi, vi, sw_res, det_issued, det_res,
                   cre_issued, cre_res, cre_err>>

V_SwitchReturn ==
    /\ V
    /\ pc = "switch_wait"
    /\ \E resp \in V_Responses("switch") :
         LET out == V_run_az_command(resp, tries) IN
         /\ Answers(resp, tries)
         /\ sw_res' = [sw_res EXCEPT ![gi] = resp]
         /\ CASE out = "return0" ->
                   /\ pc' = "detail"
                   /\ vi' = 1
                   /\ UNCHANGED <<gi, tries, tasks, outcomes, sw_log>>
              [] out \in {"return_nonzero", "raise_AzureCommandError"} ->
                   /\ V_GroupFailed(V_SwitchError(resp, CurGroup.key))
                   /\ UNCHANGED <<tries, tasks, successful_snapshots, snap_rid_file, sw_log>>
              [] out = "retry" ->
                   /\ tries' = tries + 1
                   /\ sw_log' = Append(sw_log, CurGroup.key)
                   /\ UNCHANGED <<pc, gi, vi, tasks, outcomes>>
              [] out = "raise_ClientError" ->
                   /\ Crash
                   /\ UNCHANGED <<gi, vi, tries, outcomes, sw_log>>
    /\ UNCHANGED <<fixed, details, cre_args, summary, det_issued, det_res, cre_issued, cre_res, cre_err>>

\* await run_az_command(session, f"az vm show --ids {resource_id} ...")
V_DetailIssue ==
    /\ V
    /\ pc = "detail"
    /\ vi <= Len(CurGroup.vms)
    /\ det_issued' = [det_issued EXCEPT ![CurVM] = @ + 1]
    /\ tries' = 1
    /\ pc' = "detail_wait"
    /\ UNCHANGED <<fixed, details, cre_args, summary, faults, tasks, outcomes, gi, vi, sw_log, sw_res, det_res,
                   cre_issued, cre_res, cre_err>>

V_DetailReturn ==
    /\ V
    /\ pc = "detail_wait"
    /\ \E resp \in V_Responses("detail") :
         LET out == V_run_az_command(resp, tries) IN
         /\ Answers(resp, tries)
         /\ det_res' = [det_res EXCEPT ![CurVM] = resp]
         /\ CASE out = "return0" /\ resp = "ok" ->
                   \* vm_details = json.loads(stdout); vm_info = VMInfo(...);
                   \* task = asyncio.create_task(process_vm(...)); tasks.append(task)
                   /\ vm_details' = Details(vm_list[CurVM])
                   /\ vm_info' = [vm_info EXCEPT ![CurVM] = vm_details']
                   /\ task' = [task EXCEPT ![CurVM] = "ready"]
                   /\ vi' = vi + 1
                   /\ pc' = "detail"
                   /\ UNCHANGED <<gi, tries, task_tries, appenders, semaphore,
                                  outcomes, det_issued>>
              [] out = "return0" /\ resp = "malformed" ->
                   \* json.loads(stdout) / vm_details[...] raises
                   /\ Crash
                   /\ UNCHANGED <<gi, vi, tries, outcomes, det_issued, details>>
              [] out \in {"return_nonzero", "raise_AzureCommandError"} ->
                   /\ V_GroupFailed(V_DetailError(resp, CurVM))
                   /\ UNCHANGED <<tries, tasks, successful_snapshots, snap_rid_file,
                                  det_issued, details>>
              [] out = "retry" ->
                   /\ tries' = tries + 1
                   /\ det_issued' = [det_issued EXCEPT ![CurVM] = @ + 1]
                   /\ UNCHANGED <<pc, gi, vi, tasks, outcomes, details>>
              [] out = "raise_ClientError" ->
                   /\ Crash
                   /\ UNCHANGED <<gi, vi, tries, outcomes, det_issued, details>>
    /\ UNCHANGED <<fixed, cre_args, summary, sw_log, sw_res, cre_issued, cre_res, cre_err>>

\* The inner for loop is exhausted: await asyncio.gather(*tasks)
V_DetailLoopEnd ==
    /\ V
    /\ pc = "detail"
    /\ vi > Len(CurGroup.vms)
    /\ pc' = "gather"
    /\ UNCHANGED <<fixed, details, cre_args, summary, faults, tasks, outcomes, history, gi, vi, tries>>

GroupTasks(g) == {grouped_vms[g].vms[k] : k \in 1..Len(grouped_vms[g].vms)}

\* gather returns when every task of the group has returned, and raises the
\* first exception of a task as soon as that task ends with one.
V_Gather ==
    /\ V
    /\ pc = "gather"
    /\ IF \E i \in GroupTasks(gi) : task[i] = "raised"
       THEN /\ Crash
            /\ UNCHANGED <<gi, vi>>
       ELSE /\ \A i \in GroupTasks(gi) : task[i] = "done"
            /\ gi' = gi + 1
            /\ vi' = 1
            /\ pc' = "switch"
            /\ UNCHANGED tasks
    /\ UNCHANGED <<fixed, details, cre_args, summary, faults, outcomes, history, tries>>

\* total_vms = len(vm_list)
V_total_vms == Len(vm_list)

\* The outer for loop is exhausted: the summary table is printed and the
\* summary file is written with aiofiles (awaits).
V_Summary ==
    /\ V
    /\ pc = "switch"
    /\ gi > Len(grouped_vms)
    /\ pc' = "summary"
    /\ summary' = [reported |-> TRUE,
                   table_total |-> V_total_vms, file_total |-> V_total_vms,
                   successful |-> Len(successful_snapshots),
                   failed |-> Len(failed_snapshots)]
    /\ UNCHANGED <<fixed, details, cre_args, faults, tasks, outcomes, history, gi, vi, tries>>

\* logger.info("Snapshot creation process completed."); async_main returns and
\* asyncio.run cancels whatever task is still pending.
V_Finish ==
    /\ V
    /\ pc = "summary"
    /\ pc' = "done"
    /\ CancelPending
    /\ UNCHANGED <<fixed, details, cre_args, summary, faults, outcomes, history, gi, vi, tries>>


\* A process_vm that takes a permit although none is free.
V_semaphore_acquire_unguarded == semaphore' = semaphore - 1

\* "async with semaphore:" of process_vm, entry: waits while the value is 0.
V_semaphore_acquire ==
    /\ semaphore > 0
    /\ semaphore' = semaphore - 1

\* A process_vm that leaves the block without giving its permit back.
V_semaphore_release_leaked == semaphore' = semaphore

\* "async with semaphore:" of process_vm, exit: runs on return and on exception.
V_semaphore_release == semaphore' = semaphore + 1

\* A process_vm that reads the details from the variable of the main loop.
V_CreateArgs_late(i) == vm_details

\* --resource-group {vm_info.resource_group} --source {vm_info.disk_id}
V_CreateArgs(i) == vm_info[i]

\* process_vm: "async with semaphore:" is passed and the create command issued
\* (logger.info and the name formatting do not suspend).
V_process_vm_acquire(i) ==
    /\ V
    /\ V_MainSuspended
    /\ task[i] = "ready"
    /\ V_semaphore_acquire
    /\ \E now \in Now :
          /\ clock' = now
          /\ timestamp' = [timestamp EXCEPT ![i] = now]
    /\ task' = [task EXCEPT ![i] = "creating"]
    /\ task_tries' = [task_tries EXCEPT ![i] = 1]
    /\ cre_issued' = [cre_issued EXCEPT ![i] = @ + 1]
    /\ cre_args' = [cre_args EXCEPT ![i] = V_CreateArgs(i)]
    /\ UNCHANGED <<input, TIMESTAMP, details, summary, faults, outcomes, appenders, pc, gi, vi, tries,
                   sw_log, sw_res,
                   det_issued, det_res, cre_res, cre_err>>

\* process_vm: the create command returns; lines 147-168.
V_process_vm_return(i) ==
    /\ V
    /\ V_MainSuspended
    /\ task[i] = "creating"
    /\ \E resp \in V_Responses("create") :
         LET out == V_run_az_command(resp, task_tries[i]) IN
         /\ Answers(resp, task_tries[i])
         /\ cre_res' = [cre_res EXCEPT ![i] = resp]
         /\ \E stderr \in (IF resp = "nonzero" THEN Stderrs ELSE {cre_err[i]}) :
                cre_err' = [cre_err EXCEPT ![i] = stderr]
         /\ CASE out = "return0" /\ resp = "ok" ->
                   \* snapshot_id is truthy: await write_snapshot_rid(snapshot_id)
                   /\ task' = [task EXCEPT ![i] = "opening"]
                   /\ UNCHANGED <<semaphore, task_tries, outcomes, cre_issued>>
              [] out = "return0" /\ resp = "noid" ->
                   /\ failed_snapshots' =
                          Append(failed_snapshots, <<vm_list[i].name, V_NoIdError>>)
                   /\ task' = [task EXCEPT ![i] = "done"]
                   /\ V_semaphore_release
                   /\ UNCHANGED <<task_tries, successful_snapshots, snap_rid_file,
                                  cre_issued>>
              [] out = "return0" /\ resp = "malformed" ->
                   \* json.loads(stdout) raises; only AzureCommandError is caught
                   /\ task' = [task EXCEPT ![i] = "raised"]
                   /\ V_semaphore_release
                   /\ UNCHANGED <<task_tries, outcomes, cre_issued>>
              [] out \in {"return_nonzero", "raise_AzureCommandError"} ->
                   /\ failed_snapshots' =
                          Append(failed_snapshots,
                                 <<vm_list[i].name, V_CreateError(resp, i, cre_err'[i])>>)
                   /\ task' = [task EXCEPT ![i] = "done"]
                   /\ V_semaphore_release
                   /\ UNCHANGED <<task_tries, successful_snapshots, snap_rid_file,
                                  cre_issued>>
              [] out = "retry" ->
                   /\ task_tries' = [task_tries EXCEPT ![i] = @ + 1]
                   /\ cre_issued' = [cre_issued EXCEPT ![i] = @ + 1]
                   /\ UNCHANGED <<task, semaphore, outcomes>>
              [] out = "raise_ClientError" ->
                   /\ task' = [task EXCEPT ![i] = "raised"]
                   /\ V_semaphore_release
                   /\ UNCHANGED <<task_tries, outcomes, cre_issued>>
    /\ UNCHANGED <<fixed, details, cre_args, summary, appenders, pc, gi, vi, tries, sw_log, sw_res,
                   det_issued, det_res>>

\* write_snapshot_rid: aiofiles.open(SNAP_RID_LIST_FILE, "a") completes.
V_write_snapshot_rid_open(i) ==
    /\ V
    /\ V_MainSuspended
    /\ task[i] = "opening"
    /\ task' = [task EXCEPT ![i] = "writing"]
    /\ appenders' = appenders \cup {i}
    /\ UNCHANGED <<fixed, details, cre_args, summary, faults, outcomes, history, semaphore, task_tries, pc, gi, vi, tries>>

\* write_snapshot_rid: await f.write(f"{snapshot_id}\n") completes.
V_write_snapshot_rid_write(i) ==
    /\ V
    /\ V_MainSuspended
    /\ task[i] = "writing"
    /\ snap_rid_file' = Append(snap_rid_file, SnapshotId(i))
    /\ task' = [task EXCEPT ![i] = "closing"]
    /\ UNCHANGED <<fixed, details, cre_args, summary, faults, history, semaphore, task_tries, appenders,
                   successful_snapshots, failed_snapshots, pc, gi, vi, tries>>

\* write_snapshot_rid: the file is closed; back in process_vm the success is
\* recorded, the finally clause runs and the semaphore is released.
V_write_snapshot_rid_close(i) ==
    /\ V
    /\ V_MainSuspended
    /\ task[i] = "closing"
    /\ appenders' = appenders \ {i}
    /\ successful_snapshots' =
           Append(successful_snapshots, <<vm_list[i].name, SnapshotName(i)>>)
    /\ task' = [task EXCEPT ![i] = "done"]
    /\ V_semaphore_release
    /\ UNCHANGED <<fixed, details, cre_args, summary, faults, history, task_tries, failed_snapshots, snap_rid_file,
                   pc, gi, vi, tries>>

V_Next ==
    \/ V_SwitchIssue
    \/ V_SwitchReturn
    \/ V_DetailIssue
    \/ V_DetailReturn
    \/ V_DetailLoopEnd
    \/ V_Gather
    \/ V_Summary
    \/ V_Finish
    \/ \E i \in Idx : V_process_vm_acquire(i)
    \/ \E i \in Idx : V_process_vm_return(i)
    \/ \E i \in Idx : V_write_snapshot_rid_open(i)
    \/ \E i \in Idx : V_write_snapshot_rid_write(i)
    \/ \E i \in Idx : V_write_snapshot_rid_close(i)

\* ===================================================================
\* create_snapy.py with run_az_command of common.py
\* ===================================================================
Y == variant = "snapy"

\* A write_snapshot_rid that leaves the file as it was.
Y_write_snapshot_rid_lost(file, snapshot_id) == file

\* A write_snapshot_rid that opens snap_rid_list.txt with mode "w".
Y_write_snapshot_rid_truncating(file, snapshot_id) == <<snapshot_id>>

\* write_snapshot_rid: open(SNAP_RID_LIST_FILE, "a"), write, close, no await.
Y_write_snapshot_rid(file, snapshot_id) == Append(file, snapshot_id)

\* The failure branch without its "continue": the VM loop of the group runs.
Y_GroupFailed_no_continue ==
    /\ failed_snapshots' = AppendAll(failed_snapshots, CurGroup.vms, Y_SwitchError)
    /\ gi' = gi
    /\ vi' = 1
    /\ pc' = "detail"

\* if returncode != 0: every VM of the group is appended to failed_snapshots
\* and "continue" goes to the next subscription.
Y_GroupFailed ==
    /\ failed_snapshots' = AppendAll(failed_snapshots, CurGroup.vms, Y_SwitchError)
    /\ gi' = gi + 1
    /\ vi' = 1
    /\ pc' = "switch"

\* await run_az_command(f"az account set --subscription {subscription_id}")
Y_SwitchIssue ==
    /\ Y
    /\ pc = "switch"
    /\ gi <= Len(grouped_vms)
    /\ sw_log' = Append(sw_log, CurGroup.key)
    /\ tries' = 1
    /\ pc' = "switch_wait"
    /\ UNCHANGED <<fixed, details, cre_args, summary, faults, tasks, outcomes, gi, vi, sw_res, det_issued, det_res,
                   cre_issued, cre_res, cre_err>>

Y_SwitchReturn ==
    /\ Y
    /\ pc = "switch_wait"
    /\ \E resp \in Y_Responses("switch") :
         LET out == Y_run_az_command(resp) IN
         /\ Answers(resp, 1)
         /\ sw_res' = [sw_res EXCEPT ![gi] = resp]
         /\ IF out = "return0"
            THEN /\ pc' = "detail"
                 /\ vi' = 1
                 /\ UNCHANGED <<gi, failed_snapshots>>
            ELSE Y_GroupFailed
    /\ UNCHANGED <<fixed, details, cre_args, summary, tasks, tries, successful_snapshots, snap_rid_file, sw_log,
                   det_issued, det_res, cre_issued, cre_res, cre_err>>

\* await run_az_command(f"az vm show --ids {resource_id} ...")
Y_DetailIssue ==
    /\ Y
    /\ pc = "detail"
    /\ vi <= Len(CurGroup.vms)
    /\ det_issued' = [det_issued EXCEPT ![CurVM] = @ + 1]
    /\ tries' = 1
    /\ pc' = "detail_wait"
    /\ UNCHANGED <<fixed, details, cre_args, summary, faults, tasks, outcomes, gi, vi, sw_log, sw_res, det_res,
                   cre_issued, cre_res, cre_err>>

Y_DetailReturn ==
    /\ Y
    /\ pc = "detail_wait"
    /\ \E resp \in Y_Responses("detail") :
         LET out == Y_run_az_command(resp) IN
         /\ Answers(resp, 1)
         /\ det_res' = [det_res EXCEPT ![CurVM] = resp]
         /\ CASE out = "return_nonzero" ->
                   \* failed_snapshots.append((vm_name, ...)); continue
                   /\ failed_snapshots' =
                          Append(failed_snapshots, <<vm_list[CurVM].name, Y_DetailError>>)
                   /\ vi' = vi + 1
                   /\ pc' = "detail"
                   /\ UNCHANGED <<tasks, details>>
              [] out = "return0" /\ resp = "ok" ->
                   \* vm_details = json.loads(stdout); await process_vm(...)
                   /\ vm_details' = Details(vm_list[CurVM])
                   /\ vm_info' = [vm_info EXCEPT ![CurVM] = vm_details']
                   /\ task' = [task EXCEPT ![CurVM] = "ready"]
                   /\ pc' = "process_vm"
                   /\ UNCHANGED <<vi, failed_snapshots, task_tries, appenders, semaphore>>
              [] out = "return0" /\ resp = "malformed" ->
                   \* json.loads(stdout) / vm_details[...] raises
                   /\ Crash
                   /\ UNCHANGED <<vi, failed_snapshots, details>>
    /\ UNCHANGED <<fixed, cre_args, summary, gi, tries, successful_snapshots, snap_rid_file, sw_log, sw_res,
                   det_issued, cre_issued, cre_res, cre_err>>

\* The inner for loop is exhausted: next subscription.
Y_DetailLoopEnd ==
    /\ Y
    /\ pc = "detail"
    /\ vi > Len(CurGroup.vms)
    /\ gi' = gi + 1
    /\ vi' = 1
    /\ pc' = "switch"
    /\ UNCHANGED <<fixed, details, cre_args, summary, faults, tasks, outcomes, history, tries>>

\* "async with semaphore:" of process_vm, entry: waits while the value is 0.
Y_semaphore_acquire ==
    /\ semaphore > 0
    /\ semaphore' = semaphore - 1

\* "async with semaphore:" of process_vm, exit: runs on return and on exception.
Y_semaphore_release == semaphore' = semaphore + 1

\* process_vm: "async with semaphore:" is passed, the write_log calls are
\* awaited and the create command is issued.
Y_process_vm_acquire(i) ==
    /\ Y
    /\ pc = "process_vm"
    /\ task[i] = "ready"
    /\ Y_semaphore_acquire
    /\ cre_args' = [cre_args EXCEPT ![i] = vm_info[i]]
    /\ task' = [task EXCEPT ![i] = "creating"]
    /\ task_tries' = [task_tries EXCEPT ![i] = 1]
    /\ cre_issued' = [cre_issued EXCEPT ![i] = @ + 1]
    /\ UNCHANGED <<fixed, details, summary, faults, outcomes, appenders, pc, gi, vi,
                   tries, sw_log, sw_res,
                   det_issued, det_res, cre_res, cre_err>>

\* process_vm: the create command returns (lines 48-73) and main goes on
\* after "await process_vm(...)".
Y_process_vm_return(i) ==
    /\ Y
    /\ pc = "process_vm"
    /\ task[i] = "creating"
    /\ \E resp \in Y_Responses("create") :
         LET out == Y_run_az_command(resp) IN
         /\ Answers(resp, 1)
         /\ cre_res' = [cre_res EXCEPT ![i] = resp]
         /\ \E stderr \in (IF resp = "nonzero" THEN Stderrs ELSE {cre_err[i]}) :
                cre_err' = [cre_err EXCEPT ![i] = stderr]
         /\ Y_semaphore_release
         /\ CASE out = "return_nonzero" ->
                   /\ failed_snapshots' =
                          Append(failed_snapshots, <<vm_list[i].name, Y_CreateError>>)
                   /\ task' = [task EXCEPT ![i] = "done"]
                   /\ vi' = vi + 1
                   /\ pc' = "detail"
                   /\ UNCHANGED <<successful_snapshots, snap_rid_file>>
              [] out = "return0" /\ resp = "ok" ->
                   /\ snap_rid_file' = Y_write_snapshot_rid(snap_rid_file, SnapshotId(i))
                   /\ successful_snapshots' =
                          Append(successful_snapshots, <<vm_list[i].name, SnapshotName(i)>>)
                   /\ task' = [task EXCEPT ![i] = "done"]
                   /\ vi' = vi + 1
                   /\ pc' = "detail"
                   /\ UNCHANGED failed_snapshots
              [] out = "return0" /\ resp = "noid" ->
                   /\ failed_snapshots' =
                          Append(failed_snapshots, <<vm_list[i].name, Y_NoIdError>>)
                   /\ task' = [task EXCEPT ![i] = "done"]
                   /\ vi' = vi + 1
                   /\ pc' = "detail"
                   /\ UNCHANGED <<successful_snapshots, snap_rid_file>>
              [] out = "return0" /\ resp = "malformed" ->
                   \* json.loads(stdout) raises out of process_vm and out of main
                   /\ task' = [task EXCEPT ![i] = "raised"]
                   /\ pc' = "crashed"
                   /\ UNCHANGED <<vi, outcomes>>
    /\ UNCHANGED <<fixed, details, cre_args, summary, task_tries, appenders, gi, tries, sw_log, sw_res,
                   det_issued, det_res, cre_issued>>

\* total_vms = len(successful_snapshots) + len(failed_snapshots), computed
\* between the table and the summary file
Y_total_vms == Len(successful_snapshots) + Len(failed_snapshots)

\* The outer for loop is exhausted: the summary table is printed (with
\* total_vms = len(vm_list)) and the summary file written.
Y_Summary ==
    /\ Y
    /\ pc = "switch"
    /\ gi > Len(grouped_vms)
    /\ pc' = "summary"
    /\ summary' = [reported |-> TRUE,
                   table_total |-> Len(vm_list), file_total |-> Y_total_vms,
                   successful |-> Len(successful_snapshots),
                   failed |-> Len(failed_snapshots)]
    /\ UNCHANGED <<fixed, details, cre_args, faults, tasks, outcomes, history, gi, vi, tries>>

\* console.print("Snapshot creation process completed."); main returns.
Y_Finish ==
    /\ Y
    /\ pc = "summary"
    /\ pc' = "done"
    /\ CancelPending
    /\ UNCHANGED <<fixed, details, cre_args, summary, faults, outcomes, history, gi, vi, tries>>

Y_Next ==
    \/ Y_SwitchIssue
    \/ Y_SwitchReturn
    \/ Y_DetailIssue
    \/ Y_DetailReturn
    \/ Y_DetailLoopEnd
    \/ Y_Summary
    \/ Y_Finish
    \/ \E i \in Idx : Y_process_vm_acquire(i)
    \/ \E i \in Idx : Y_process_vm_return(i)

Next == V_Next \/ Y_Next
Spec == Init /\ [][Next]_vars
SpecClock == InitClock /\ [][Next]_vars

\* ------------------------------------------ group_vms_by_subscription alone
\* async_main / main has read the input list and has not grouped it yet.
InitGroup ==
    /\ variant \in Variants
    /\ vm_list \in GroupInputs
    /\ grouped_vms = <<>>
    /\ pc = "group"
    /\ Globals
    /\ NotValidating
    /\ test = NoTest
    /\ clock = MaxClock
    /\ TIMESTAMP = clock

\* grouped_vms = group_vms_by_subscription(vm_list); its exception is caught
\* nowhere and ends async_main / main.
Group ==
    /\ pc = "group"
    /\ LET result == group_vms_by_subscription(vm_list) IN
         IF result = IndexError
         THEN pc' = "crashed" /\ UNCHANGED grouped_vms
         ELSE pc' = "grouped" /\ grouped_vms' = result
    /\ UNCHANGED <<variant, vm_list, capacity, clocks, timestamp, tasks, outcomes,
                   history, faults, gi, vi, tries, test, details, cre_args, summary,
                   run, started, val>>

NextGroup == Group
SpecGroup == InitGroup /\ [][NextGroup]_vars

\* ------------------------------------------------ runs from the input list
\* async_main / main has read snapshot_vmlist.txt and has not grouped it yet.
InitInput ==
    /\ variant \in Variants
    /\ vm_list \in RawInputs
    /\ grouped_vms = <<>>
    /\ pc = "group"
    /\ Globals
    /\ NotValidating
    /\ test = NoTest
    /\ clock = MaxClock
    /\ TIMESTAMP = clock

\* The progress bars are built and the loop over grouped_vms.items() entered.
EnterLoop ==
    /\ pc = "grouped"
    /\ pc' = "switch"
    /\ sw_res' = [g \in 1..Len(grouped_vms) |-> "none"]
    /\ UNCHANGED <<fixed, details, cre_args, summary, grouped_vms, tasks, outcomes, faults, gi, vi, tries, sw_log,
                   det_issued, det_res, cre_issued, cre_res, cre_err>>

NextInput == Group \/ EnterLoop \/ Next
SpecInput == InitInput /\ [][NextInput]_vars

\* ------------------------------------------- main called again in a process
\* The input lists of a process that calls main more than once.
RerunInputs == {l \in InputLists : Len(l) <= MaxRerunVMs}

InitRerun ==
    /\ Start
    /\ vm_list \in RerunInputs
    /\ clock = MaxClock
    /\ TIMESTAMP = clock

\* main / async_main has returned and is called again in the same process
\* with another host file.  The locals of the call are new; the module
\* globals (semaphore, successful_snapshots, failed_snapshots, TIMESTAMP) are
\* bound once, at import, and the entry of main assigns none of them;
\* snap_rid_list.txt stays on disk.
Rerun ==
    /\ pc = "done"
    /\ run < MaxRuns
    /\ run' = run + 1
    /\ started' = [successful |-> Len(successful_snapshots),
                   failed |-> Len(failed_snapshots)]
    /\ vm_list' \in RerunInputs
    /\ grouped_vms' = group_vms_by_subscription(vm_list')
    /\ pc' = "switch"
    /\ gi' = 1
    /\ vi' = 1
    /\ tries' = 0
    /\ task' = [i \in 1..Len(vm_list') |-> "none"]
    /\ task_tries' = [i \in 1..Len(vm_list') |-> 0]
    /\ sw_log' = <<>>
    /\ sw_res' = [g \in 1..Len(grouped_vms') |-> "none"]
    /\ det_issued' = [i \in 1..Len(vm_list') |-> 0]
    /\ det_res' = [i \in 1..Len(vm_list') |-> "none"]
    /\ cre_issued' = [i \in 1..Len(vm_list') |-> 0]
    /\ cre_res' = [i \in 1..Len(vm_list') |-> "none"]
    /\ cre_err' = [i \in 1..Len(vm_list') |-> ""]
    /\ timestamp' = [i \in 1..Len(vm_list') |-> 0]
    /\ vm_details' = NoDetails
    /\ vm_info' = [i \in 1..Len(vm_list') |-> NoDetails]
    /\ cre_args' = [i \in 1..Len(vm_list') |-> NoDetails]
    /\ summary' = NoSummary
    /\ UNCHANGED <<variant, capacity, semaphore, appenders, outcomes, faults, clocks, test,
                   val>>

NextRerun == Next \/ Rerun
SpecRerun == InitRerun /\ [][NextRerun]_vars

\* ------------------------------------------------ validate_snapshot.test.py
\* The modules of the repository that the test can name in its import.
TestModules == {"validate_snapshot", "validate_snapshot_promax", "validate_snapy"}

\* The classes and functions bound at the top level of a module.
Namespace(m) ==
    CASE m = "validate_snapshot" ->
             {"log_error", "run_az_command", "extract_snapshot_name", "validate_snapshots"}
      [] m = "validate_snapshot_promax" ->
             {"CustomSpinner", "log_error", "run_az_command", "extract_snapshot_name",
              "validate_snapshots"}
      [] m = "validate_snapy" ->
             {"run_az_command", "log_error", "extract_snapshot_name", "read_snapshots",
              "validate_snapshots", "validate_snapshot", "move_invalid_snapshots"}

\* Names that rich.spinner.Spinner knows (a sample of rich's SPINNERS table).
SPINNERS == {"aesthetic", "dots", "line", "arc", "moon", "clock", "earth", "star",
             "pipe", "point", "material", "toggle"}

\* The positional arguments of the constructor call: none, or one name.
SpinnerArgs == {<<>>} \cup {<<n>> : n \in SPINNERS \cup {"test_spinner"}}

\* class CustomSpinner(Spinner): __init__(self, name="aesthetic") calls
\* super().__init__(name); Spinner.__init__(name, text="", *, style=None,
\* speed=1.0) raises KeyError for a name it does not know and keeps
\* self.style = style.
CustomSpinner(args) ==
    LET name == IF args = <<>> THEN "aesthetic" ELSE args[1] IN
    IF name \in SPINNERS
    THEN [error |-> "", spinner |-> [name |-> name, style |-> "None"]]
    ELSE [error |-> "KeyError", spinner |-> NoTest.spinner]

\* unittest starts the test module of one import line and one constructor call.
InitTest ==
    /\ variant = "snapy"
    /\ vm_list = <<>>
    /\ grouped_vms = <<>>
    /\ pc = "unittest"
    /\ Globals
    /\ NotValidating
    /\ clock = MaxClock
    /\ TIMESTAMP = clock
    /\ \E m \in TestModules, a \in SpinnerArgs :
          test = [NoTest EXCEPT !.pc = "import", !.module = m, !.args = a]

\* what the test run leaves alone
untested == <<variant, vm_list, grouped_vms, capacity, clocks, timestamp, tasks,
              outcomes, history, faults, pc, gi, vi, tries, details, cre_args, summary,
              run, started, val>>

\* from <module> import CustomSpinner
test_import ==
    /\ test.pc = "import"
    /\ test' = IF "CustomSpinner" \in Namespace(test.module)
               THEN [test EXCEPT !.pc = "construct"]
               ELSE [test EXCEPT !.pc = "error", !.error = "ImportError"]
    /\ UNCHANGED untested

\* spinner = CustomSpinner(<args>)
test_construct ==
    /\ test.pc = "construct"
    /\ LET made == CustomSpinner(test.args) IN
         test' = IF made.error = ""
                 THEN [test EXCEPT !.pc = "assert", !.spinner = made.spinner]
                 ELSE [test EXCEPT !.pc = "error", !.error = made.error]
    /\ UNCHANGED untested

\* self.assertEqual(spinner.style, "aesthetic")
test_assert ==
    /\ test.pc = "assert"
    /\ test' = IF test.spinner.style = "aesthetic"
               THEN [test EXCEPT !.pc = "passed"]
               ELSE [test EXCEPT !.pc = "failed", !.error = "AssertionError"]
    /\ UNCHANGED untested

NextTest == test_import \/ test_construct \/ test_assert
SpecTest == InitTest /\ [][NextTest]_vars

\* ------------------------- validate_snapy.py and validate_snap_v2.2.0.py
Validators == {"validate_snapy", "validate_snap_v2.2.0"}

\* The names of the snapshots of a list: "RH_h1", "RH_h1_1", "RH_h1_2" and
\* "snap", each the sequence of its parts between underscores.  An id is its
\* path, the name last.
SnapshotNames == {<<"RH", "h1">>, <<"RH", "h1", 1>>, <<"RH", "h1", 2>>, <<"snap">>}
SnapshotIds == {<<"id", n>> : n \in SnapshotNames}
\* The contents of the snapshot list file: any lines, repeated ones included.
SnapshotLists == SeqsUpTo(SnapshotIds, MaxListLen)

\* parts = snapshot_id.split("/"); parts[-1].rsplit("_", 1)[0]
extract_snapshot_name(snapshot_id) ==
    LET full_name == snapshot_id[Len(snapshot_id)] IN
    IF Len(full_name) > 1 THEN SubSeq(full_name, 1, Len(full_name) - 1) ELSE full_name

\* What "az snapshot show --ids <id>" can produce.  "found": exit status 0
\* and the JSON of the snapshot, whose name is the last segment of the id;
\* "missing": non-zero exit status; "unparsable": exit status 0 and text that
\* is no JSON; "oserror": the subprocess cannot be started.
ShowAnswers == {"found", "missing", "unparsable", "oserror"}

NoResult == [name |-> <<>>, exists |-> FALSE]

\* validate_snapshot: the result of one line.  run_az_command returns None on
\* a non-zero exit status; json.loads raises on text that is no JSON and
\* create_subprocess_shell raises OSError, both inside the try block.
validate_snapshot(snapshot_id, resp) ==
    IF resp = "found"
    THEN [name |-> snapshot_id[Len(snapshot_id)], exists |-> TRUE]
    ELSE [name |-> extract_snapshot_name(snapshot_id), exists |-> FALSE]

\* A gather that hands the results back in the order of completion.
gather_as_completed(result, finished) ==
    [k \in 1..Len(finished) |-> result[finished[k]]]

\* await asyncio.gather(*snapshot_tasks): the results in the order of the
\* awaitables.
gather(result, finished) == [i \in 1..Len(result) |-> result[i]]

\* sum(1 for s in validated_snapshots if s["exists"]) and its complement
CountExists(validated, e) ==
    Cardinality({k \in 1..Len(validated) : validated[k].exists = e})

\* validate_snapy.py: a line is valid when some result that exists carries
\* the name extracted from the line.
VS_Matches(validated, s) ==
    \E k \in 1..Len(validated) :
        validated[k].name = extract_snapshot_name(s) /\ validated[k].exists

\* A selection of the invalid lines that looks at the failed results only.
VS_invalid_snapshots_by_failure(validated, all_snapshots) ==
    LET Test(s) == \E k \in 1..Len(validated) :
                       validated[k].name = extract_snapshot_name(s)
                       /\ ~validated[k].exists
    IN SelectSeq(all_snapshots, Test)

VS_invalid_snapshots(validated, all_snapshots) ==
    LET Test(s) == ~VS_Matches(validated, s) IN SelectSeq(all_snapshots, Test)

VS_valid_snapshots(validated, all_snapshots) ==
    LET Test(s) == VS_Matches(validated, s) IN SelectSeq(all_snapshots, Test)

\* validate_snap_v2.2.0.py: invalid_snapshots = [s for s in
\* validated_snapshots if not s["exists"]]
V22_invalid_snapshots(validated) ==
    LET Test(v) == ~v.exists IN SelectSeq(validated, Test)

\* invalid_ids = [id for id in all_snapshot_ids
\*                if extract_snapshot_name(id) in invalid_names]
V22_invalid_ids(invalid_snapshots, all_snapshot_ids) ==
    LET Test(id) == \E k \in 1..Len(invalid_snapshots) :
                        invalid_snapshots[k].name = extract_snapshot_name(id)
    IN SelectSeq(all_snapshot_ids, Test)

\* valid_ids = [id for id in all_snapshot_ids if id not in invalid_ids]
V22_valid_ids(invalid_ids, all_snapshot_ids) ==
    LET Test(id) == ~\E k \in 1..Len(invalid_ids) : invalid_ids[k] = id
    IN SelectSeq(all_snapshot_ids, Test)

\* validate_snapshots has read the list file and built one validate_snapshot
\* coroutine per line; it awaits their gather.
InitValidate ==
    /\ variant = "snapy"
    /\ vm_list = <<>>
    /\ grouped_vms = <<>>
    /\ pc = "validate"
    /\ Globals
    /\ test = NoTest
    /\ clock = MaxClock
    /\ TIMESTAMP = clock
    /\ \E sc \in Validators, ids \in SnapshotLists :
          val = [NoVal EXCEPT !.pc = "gather", !.script = sc,
                              !.snapshot_ids = ids,
                              !.total_snapshots = Len(ids),
                              !.resp = [i \in 1..Len(ids) |-> "none"],
                              !.result = [i \in 1..Len(ids) |-> NoResult],
                              !.list_file = ids]

\* what a validate script leaves alone
unvalidated == <<variant, vm_list, grouped_vms, capacity, clocks, timestamp, tasks,
                 outcomes, history, faults, pc, gi, vi, tries, details, cre_args,
                 summary, run, started, test>>

\* The show command of line i ends and validate_snapshot returns its result;
\* the commands of the lines end in any order.
validate_snapshot_return(i) ==
    /\ val.pc = "gather"
    /\ val.resp[i] = "none"
    /\ \E resp \in ShowAnswers :
          val' = [val EXCEPT !.resp[i] = resp,
                             !.result[i] = validate_snapshot(val.snapshot_ids[i], resp),
                             !.finished = Append(@, i)]
    /\ UNCHANGED unvalidated

\* Every coroutine has returned: gather returns and the summary table is
\* printed.
validate_snapshots_summary ==
    /\ val.pc = "gather"
    /\ \A i \in 1..Len(val.snapshot_ids) : val.resp[i] # "none"
    /\ LET validated == gather(val.result, val.finished) IN
         val' = [val EXCEPT !.pc = "summary",
                            !.validated_snapshots = validated,
                            !.valid = CountExists(validated, TRUE),
                            !.invalid = CountExists(validated, FALSE)]
    /\ UNCHANGED unvalidated

\* Confirm.ask(... move invalid snapshots ...) is answered with yes:
\* move_invalid_snapshots writes invalid_snap_rid.txt and rewrites the list.
move_invalid_snapshots ==
    /\ val.pc = "summary"
    /\ val.invalid > 0
    /\ IF val.script = "validate_snapy"
       THEN LET all_snapshots == val.list_file IN
            val' = [val EXCEPT
                      !.pc = "moved",
                      !.invalid_file =
                          VS_invalid_snapshots(val.validated_snapshots, all_snapshots),
                      !.list_file =
                          VS_valid_snapshots(val.validated_snapshots, all_snapshots)]
       ELSE LET invalid_ids ==
                    V22_invalid_ids(V22_invalid_snapshots(val.validated_snapshots),
                                    val.snapshot_ids)
            IN val' = [val EXCEPT
                         !.pc = "moved",
                         !.invalid_file = invalid_ids,
                         !.list_file = V22_valid_ids(invalid_ids, val.snapshot_ids)]
    /\ UNCHANGED unvalidated

\* No result is invalid, or the question is answered with no.
validate_snapshots_return ==
    /\ val.pc = "summary"
    /\ val' = [val EXCEPT !.pc = "done"]
    /\ UNCHANGED unvalidated

NextValidate ==
    \/ \E i \in 1..MaxListLen : i <= Len(val.snapshot_ids) /\ validate_snapshot_return(i)
    \/ validate_snapshots_summary
    \/ move_invalid_snapshots
    \/ validate_snapshots_return

SpecValidate == InitValidate /\ [][NextValidate]_vars

\* ===================================================================
\* Properties
\* ===================================================================
LinesNamed(n) == {i \in Idx : vm_list[i].name = n}
Successes(n) ==
    Cardinality({k \in 1..Len(successful_snapshots) : successful_snapshots[k][1] = n})
Failures(n) ==
    Cardinality({k \in 1..Len(failed_snapshots) : failed_snapshots[k][1] = n})
FailuresFor(n, reasons) ==
    Cardinality({k \in 1..Len(failed_snapshots) :
                    /\ failed_snapshots[k][1] = n
                    /\ failed_snapshots[k][2][1] \in reasons})
\* lines appended to snap_rid_list.txt during the run that carry the
\* identifier of a snapshot of a VM named n
Appended(n) ==
    Cardinality({k \in (Len(InitialFile) + 1)..Len(snap_rid_file) :
                    snap_rid_file[k][1] = "id" /\ snap_rid_file[k][2][2] = n})

SwitchReasons == {"Failed to set subscription ID", "Command failed: az account set",
                  "Failed to set subscription"}
DetailReasons == {"Failed to get VM details"}

GroupIdx == 1..Len(grouped_vms)
\* the account-set command of group g ended in a failure reported to the caller
SwitchFailed(g) == sw_res[g] \in {"nonzero", "http_error", "launch_error"}
\* the vm-show command of line i ended with a non-zero exit status
DetailFailed(i) == det_res[i] \in {"nonzero", "launch_error"}
InFlight == {i \in Idx : task[i] = "creating"}

\* C1: when the run reports completion, every input record (with
\* multiplicity) has exactly one recorded outcome: for every vm name the
\* successes and failures recorded under it number as many as its input lines.
C1_ExactlyOneOutcome ==
    pc = "done" =>
        \A n \in Names : Successes(n) + Failures(n) = Cardinality(LinesNamed(n))

\* C2: in every reachable state the number of snapshot-create commands issued
\* and not yet returned is at most the capacity N of the semaphore.
C2_ConcurrencyBound == Cardinality(InFlight) <= capacity

\* C2 witness: N create commands are in flight while another task is queued
\* behind the semaphore, N >= 2.
C2_Witness ==
    /\ capacity >= 2
    /\ Cardinality(InFlight) = capacity
    /\ \E i \in Idx : task[i] = "ready"

\* C3: in a completed run, every VM of a group whose context switch failed is
\* recorded Failed with a context-switch reason, and every other group has its
\* switch issued, a detail lookup for each of its VMs and a create command for
\* each VM whose details resolved.
C3_GroupIsolation ==
    (pc = "done" /\ \E g \in GroupIdx : SwitchFailed(g)) =>
        /\ \A n \in Names :
              FailuresFor(n, SwitchReasons) =
                  Cardinality({i \in LinesNamed(n) :
                                  \E g \in GroupIdx : SwitchFailed(g) /\ i \in GroupTasks(g)})
        /\ \A g \in GroupIdx :
              ~SwitchFailed(g) =>
                  /\ \E k \in 1..Len(sw_log) : sw_log[k] = grouped_vms[g].key
                  /\ \A i \in GroupTasks(g) :
                        /\ det_issued[i] >= 1
                        /\ det_res[i] = "ok" => cre_issued[i] >= 1

\* C4: no detail-lookup command and no create command is ever issued for a VM
\* of a group whose context switch did not succeed.
C4_NoCommandAfterFailedSwitch ==
    \A g \in GroupIdx :
        sw_res[g] \notin {"none", "ok"} =>
            \A i \in GroupTasks(g) : det_issued[i] = 0 /\ cre_issued[i] = 0

\* C4 witness: a completed run in which the switch of a group of two VMs
\* failed and another group was processed.
C4_Witness ==
    /\ pc = "done"
    /\ \E g \in GroupIdx : SwitchFailed(g) /\ Len(grouped_vms[g].vms) >= 2
    /\ \E g \in GroupIdx : sw_res[g] = "ok"

\* C5: in a completed run, a detail lookup that returned a non-zero status
\* fails only its own VM: the Failures with a detail-lookup reason are those
\* VMs, and every sibling of the group had its own detail lookup and, when its
\* details resolved, its own create command.
C5_DetailFailureIsolated ==
    pc = "done" =>
        /\ \A n \in Names :
              FailuresFor(n, DetailReasons) =
                  Cardinality({i \in LinesNamed(n) : DetailFailed(i)})
        /\ \A g \in GroupIdx :
              (\E i \in GroupTasks(g) : DetailFailed(i)) =>
                  \A j \in GroupTasks(g) :
                      /\ det_issued[j] >= 1
                      /\ det_res[j] = "ok" => cre_issued[j] >= 1

\* C6: while the context-switch command of a group is in flight, no process_vm
\* task of an earlier group is still waiting for a permit or running.
C6_Barrier ==
    pc = "switch_wait" =>
        \A g \in 1..(gi - 1) : \A i \in GroupTasks(g) : task[i] \notin Pending

\* subscription ids of the input in the order of their first appearance
FirstSeen ==
    LET firsts == {i \in Idx : \A j \in 1..(i - 1) :
                                  SubscriptionOf(vm_list[j]) # SubscriptionOf(vm_list[i])}
        nth[k \in 1..Cardinality(firsts)] ==
            CHOOSE i \in firsts : Cardinality({j \in firsts : j < i}) = k - 1
    IN  [k \in 1..Cardinality(firsts) |-> SubscriptionOf(vm_list[nth[k]])]

IsPrefix(a, b) == Len(a) <= Len(b) /\ \A k \in 1..Len(a) : a[k] = b[k]

\* C7: the context-switch commands issued so far are the first subscriptions of
\* the input in first-seen order, each once; a completed run has issued one
\* for every subscription.
C7_SwitchOncePerSubscription ==
    /\ IsPrefix(sw_log, FirstSeen)
    /\ pc = "done" => sw_log = FirstSeen

\* C8: at most one process_vm task is between opening snap_rid_list.txt for
\* append and closing it.
C8_AppendsSerialized == Cardinality(appenders) <= 1

\* C9: every VM recorded in successful_snapshots already has its snapshot
\* identifier in snap_rid_list.txt.
C9_AppendOnSuccess == \A n \in Names : Successes(n) <= Appended(n)

\* C9 witness: two successes are recorded before the run has completed.
C9_Witness ==
    /\ Len(successful_snapshots) >= 2
    /\ pc \notin {"summary", "done", "crashed"}

\* C10: in a completed run the lines appended to snap_rid_list.txt are the
\* identifiers of the recorded successes, each once, and no line was appended
\* for a VM recorded as a failure (a VM is told from the others by its name
\* when the name occurs once in the input).
C10_FileMatchesSuccesses ==
    pc = "done" =>
        \A n \in Names :
            /\ Appended(n) = Successes(n)
            /\ (Cardinality(LinesNamed(n)) = 1 /\ Failures(n) > 0) => Appended(n) = 0

\* The statements that fail in create_snap-v20240811.py, restricted to its runs
\* in which no detail lookup was answered with a failure, resp. no command was
\* retried.
V_NoDetailFailure == \A i \in Idx : det_res[i] \notin {"nonzero", "http_error"}
V_C1 == V_NoDetailFailure => C1_ExactlyOneOutcome
V_C3 == V_NoDetailFailure => C3_GroupIsolation
V_C6 == V_NoDetailFailure => C6_Barrier
V_C10 == V_NoDetailFailure => C10_FileMatchesSuccesses
V_C7 == (\A k \in 1..(Len(sw_log) - 1) : sw_log[k] # sw_log[k + 1])
            => C7_SwitchOncePerSubscription

\* The same statements restricted to create_snapy.py.
Y_C1 == Y => C1_ExactlyOneOutcome
Y_C3 == Y => C3_GroupIsolation
Y_C5 == Y => C5_DetailFailureIsolated
Y_C6 == Y => C6_Barrier
Y_C7 == Y => C7_SwitchOncePerSubscription
Y_C8 == Y => C8_AppendsSerialized
Y_C10 == Y => C10_FileMatchesSuccesses

\* C11: a process_vm call holds a permit exactly while it is inside "async
\* with semaphore": the free permits plus the calls inside the block always
\* number N, so every exit path (return, failure, missing id, exception,
\* cancellation) has released once and only once.
C11_PermitReleased ==
    /\ semaphore + Cardinality({i \in Idx : task[i] \in Holding}) = capacity
    /\ semaphore <= capacity

\* C11 witness: a process_vm call ended with an exception, another returned,
\* and all N permits are free again.
C11_Witness ==
    /\ \E i \in Idx : task[i] = "raised"
    /\ \E i \in Idx : task[i] = "done"
    /\ semaphore = capacity

\* C12: whatever the commands answer (non-zero exit, exit 0 with an empty or
\* malformed body, transport error), no exception ends the run early: the
\* run is never in the state left by an uncaught exception.
C12_RunCompletes == pc # "crashed"

\* the reason recorded for a create command that exits 0 without 'id', and
\* the reasons recorded for a create command of line i that exits non-zero
NoIdReason == IF V THEN V_NoIdError ELSE Y_NoIdError
NonzeroReasons(i) ==
    IF V THEN {V_CreateError("nonzero", i, e) : e \in Stderrs} ELSE {Y_CreateError}
CreatedOk(n) == {i \in LinesNamed(n) : cre_res[i] = "ok"}
CreatedNoId(n) == {i \in LinesNamed(n) : cre_res[i] = "noid"}

\* C13: a create command that exits 0 with a response without 'id' leaves
\* one Failure with the missing-identifier reason, which no non-zero exit is
\* recorded with; it leaves no Success and no line in snap_rid_list.txt:
\* per vm name, the missing-identifier failures number as many as the lines
\* answered without 'id', and successes and appended lines never exceed the
\* lines answered with an 'id'.
C13_MissingIdIsFailure ==
    /\ \A i \in Idx : NoIdReason \notin NonzeroReasons(i)
    /\ \A n \in Names :
        /\ Cardinality({k \in 1..Len(failed_snapshots) :
                           failed_snapshots[k] = <<n, NoIdReason>>})
               = Cardinality(CreatedNoId(n))
        /\ Successes(n) <= Cardinality(CreatedOk(n))
        /\ Appended(n) <= Cardinality(CreatedOk(n))

\* C13 witness: a completed run in which the only line named h2 was answered
\* without 'id' and another line was created and appended.
C13_Witness ==
    /\ pc = "done"
    /\ \E i \in Idx : cre_res[i] = "noid" /\ LinesNamed(vm_list[i].name) = {i}
                      /\ Successes(vm_list[i].name) = 0
                      /\ Appended(vm_list[i].name) = 0
    /\ \E j \in Idx : cre_res[j] = "ok"

\* C14: a create command that exits non-zero leaves a Failure whose reason
\* carries the stderr text of the command.
C14_ReasonFromStderr ==
    \A i \in Idx :
        cre_res[i] = "nonzero" =>
            \E k \in 1..Len(failed_snapshots) :
                /\ failed_snapshots[k][1] = vm_list[i].name
                /\ \E c \in 1..Len(failed_snapshots[k][2]) :
                       failed_snapshots[k][2][c] = cre_err[i]

\* The same statement restricted to create_snap-v20240811.py.
V_C14 == V => C14_ReasonFromStderr

\* C15: no command is issued a second time: at most one account-set command
\* per subscription, one vm-show and one snapshot-create command per line.
C15_NoRetries ==
    /\ \A s \in Subs : Cardinality({k \in 1..Len(sw_log) : sw_log[k] = s}) <= 1
    /\ \A i \in Idx : det_issued[i] <= 1 /\ cre_issued[i] <= 1

\* The same statement restricted to create_snapy.py.
Y_C15 == Y => C15_NoRetries

\* a step in which a launched command comes back with a non-zero exit status
AnsweredNonzero ==
    \/ \E g \in GroupIdx : sw_res[g] # "nonzero" /\ sw_res'[g] = "nonzero"
    \/ \E i \in Idx : det_res[i] # "nonzero" /\ det_res'[i] = "nonzero"
    \/ \E i \in Idx : cre_res[i] # "nonzero" /\ cre_res'[i] = "nonzero"

\* C16: a command that exits non-zero is handed back to the caller and not
\* raised: in the step that answers it no coroutine ends with an exception
\* of the runner, and the caller, holding stderr and the status, takes its
\* own decision (it records a failure; for the create command of
\* create_snap-v20240811.py the recorded reason carries the captured stderr).
C16_NonzeroIsReturned ==
    [][AnsweredNonzero =>
          /\ pc' # "crashed"
          /\ \A i \in Idx : task'[i] = "raised" => task[i] = "raised"
          /\ Len(failed_snapshots') > Len(failed_snapshots)
          /\ \A i \in Idx :
                (V /\ cre_res[i] # "nonzero" /\ cre_res'[i] = "nonzero") =>
                    failed_snapshots'[Len(failed_snapshots')] =
                        <<vm_list[i].name, V_CreateError("nonzero", i, cre_err'[i])>>
      ]_vars

\* C16 witness: a completed run in which a vm-show command and a
\* snapshot-create command exited non-zero.
C16_Witness ==
    /\ pc = "done"
    /\ \E i \in Idx : det_res[i] = "nonzero"
    /\ \E i \in Idx : cre_res[i] = "nonzero"

\* a command of the run could not be launched
LaunchFailed ==
    \/ \E g \in GroupIdx : sw_res[g] = "launch_error"
    \/ \E i \in Idx : det_res[i] = "launch_error" \/ cre_res[i] = "launch_error"

\* C17: once a command could not be launched the run is aborted by the
\* exception of the runner: nothing is recorded for it and no further VM or
\* group is processed.
C17_LaunchFailureAborts == LaunchFailed => pc = "crashed"

\* the lines whose snapshot name was formed (their create command was issued)
Named == {i \in Idx : cre_issued[i] > 0}

\* C18: any two snapshot names formed in one run carry the same timestamp,
\* whatever time passes between the two process_vm calls.
C18_OneTimestamp ==
    \A i, j \in Named : SnapshotName(i)[3] = SnapshotName(j)[3]

\* The same statement restricted to create_snapy.py.
Y_C18 == Y => C18_OneTimestamp

\* positions <<g, k>> of the grouped result, and the record at a position
Slots == {<<g, k>> \in GroupIdx \X (1..MaxGroupLen) : k <= Len(grouped_vms[g].vms)}
RecordAt(slot) == vm_list[grouped_vms[slot[1]].vms[slot[2]]]

\* C19: the groups returned by group_vms_by_subscription hold every input
\* record as often as the input does, no subscription has two groups, and
\* every record sits under the key that is segment 2 of its resource id
\* split at "/".
C19_GroupingKeepsRecords ==
    pc = "grouped" =>
        /\ \A r \in Lines :
              Cardinality({slot \in Slots : RecordAt(slot) = r})
                  = Cardinality({i \in Idx : vm_list[i] = r})
        /\ \A slot \in Slots :
              grouped_vms[slot[1]].key = RecordAt(slot).rid[3]
        /\ \A g, h \in GroupIdx :
              grouped_vms[g].key = grouped_vms[h].key => g = h

\* C19 witness: four lines, the first and the third equal, two subscriptions.
C19_Witness ==
    /\ pc = "grouped"
    /\ Len(vm_list) = MaxGroupLen
    /\ vm_list[1] = vm_list[3]
    /\ Len(grouped_vms) = 2

\* C20: the groups come in the order in which their subscription ids first
\* appear in the input, and the records of a group are in input order.
C20_GroupingKeepsOrder ==
    pc = "grouped" =>
        /\ [g \in GroupIdx |-> grouped_vms[g].key] = FirstSeen
        /\ \A g \in GroupIdx :
              \A k \in 1..(Len(grouped_vms[g].vms) - 1) :
                  grouped_vms[g].vms[k] < grouped_vms[g].vms[k + 1]

\* C20 witness: the input starts with S2, S1 follows, and S2 comes back:
\* the first group is S2 with two records or more.
C20_Witness ==
    /\ pc = "grouped"
    /\ Len(vm_list) >= 3
    /\ vm_list[1].rid[3] = "S2" /\ vm_list[2].rid[3] = "S1" /\ vm_list[3].rid[3] = "S2"
    /\ grouped_vms[1].key = "S2"
    /\ Len(grouped_vms[1].vms) >= 2

\* some input line has a resource id of fewer than 3 segments
Malformed == \E i \in Idx : Len(vm_list[i].rid) < 3

\* C21: with a short resource id anywhere in the input the run ends in the
\* grouping: no command is ever issued, no outcome recorded and nothing
\* appended to snap_rid_list.txt.
C21_ShortIdIsFatal ==
    Malformed =>
        /\ pc \in {"group", "crashed"}
        /\ sw_log = <<>>
        /\ \A i \in Idx : det_issued[i] = 0 /\ cre_issued[i] = 0
        /\ successful_snapshots = <<>>
        /\ failed_snapshots = <<>>
        /\ snap_rid_file = InitialFile

\* C21 witness: the run has ended in the grouping of a list whose first line
\* is well-formed and whose second line has a short resource id.
C21_Witness ==
    /\ pc = "crashed"
    /\ Len(vm_list) = 2
    /\ Len(vm_list[1].rid) >= 3
    /\ Len(vm_list[2].rid) < 3

\* async_main / main is suspended until process_vm calls return
MainAwaitsCreation == pc \in {"gather", "process_vm"}

\* C22: the detail lookup of a later VM of the group does not wait for the
\* create command of an earlier one: while a create command is in flight,
\* the main coroutine waits for process_vm only when every VM of its group
\* has had its lookup issued.
C22_LookupsDoNotWaitForCreation ==
    (MainAwaitsCreation /\ InFlight # {}) =>
        \A k \in 1..Len(CurGroup.vms) : det_issued[CurGroup.vms[k]] > 0

\* The same statement restricted to create_snap-v20240811.py, and what
\* create_snapy.py does instead: never two create commands in flight.
V_C22 == V => C22_LookupsDoNotWaitForCreation
Y_OneCreationAtATime == Y => Cardinality(InFlight) <= 1

\* C23: a detail lookup is never held back by permits in use: while a
\* process_vm call holds a permit, the main coroutine is suspended on
\* process_vm calls only when every VM of its group has had its lookup
\* issued, so that a lookup can be issued with all permits taken.
C23_LookupsNotBehindPermits ==
    (MainAwaitsCreation /\ semaphore < capacity) =>
        \A k \in 1..Len(CurGroup.vms) : det_issued[CurGroup.vms[k]] > 0

\* What holds of the lookups in both scripts: issuing one takes no permit.
LookupTakesNoPermit ==
    [][(\E i \in Idx : det_issued'[i] > det_issued[i]) => semaphore' = semaphore]_vars
\* The statement restricted to create_snap-v20240811.py, and a state of it in
\* which a lookup is about to be issued with every permit taken.
V_C23 == V => C23_LookupsNotBehindPermits
V_LookupWithNoPermitFree == ~(V /\ pc = "detail" /\ vi <= Len(CurGroup.vms) /\ semaphore = 0)

\* C24: successful_snapshots and failed_snapshots only grow: every step
\* leaves the entries recorded so far in place and unchanged.
C24_OutcomesOnlyGrow ==
    [][/\ IsPrefix(successful_snapshots, successful_snapshots')
       /\ IsPrefix(failed_snapshots, failed_snapshots')]_vars

\* C24 witness: a completed run with a success and two failures, one of them
\* recorded for a whole group.
C24_Witness ==
    /\ pc = "done"
    /\ Len(successful_snapshots) >= 1
    /\ Len(failed_snapshots) >= 2
    /\ \E g \in GroupIdx : SwitchFailed(g)

\* C25: snap_rid_list.txt is append-only during the run: every step leaves
\* the lines it holds, those of earlier runs included, in place, and a step
\* that changes the file adds one line, the identifier returned by a create
\* command that exited 0 with an 'id'.
C25_FileAppendOnly ==
    [][/\ IsPrefix(snap_rid_file, snap_rid_file')
       /\ snap_rid_file' # snap_rid_file =>
             /\ Len(snap_rid_file') = Len(snap_rid_file) + 1
             /\ \E i \in Idx : /\ cre_res'[i] = "ok"
                               /\ snap_rid_file'[Len(snap_rid_file')] = SnapshotId(i)]_vars

\* C25 witness: a completed run that appended two lines after the line of
\* the earlier run and also recorded a failure.
C25_Witness ==
    /\ pc = "done"
    /\ Len(snap_rid_file) = Len(InitialFile) + 2
    /\ snap_rid_file[1] = OldLine
    /\ failed_snapshots # <<>>

\* C26: as long as a create command has not returned, the main coroutine
\* stays in the group of that VM: no later group is entered and the run
\* does not reach its summary.
C26_StuckCreationStalls ==
    \A i \in InFlight :
        /\ gi \in GroupIdx
        /\ i \in GroupTasks(gi)
        /\ pc \notin {"summary", "done"}

\* The same statement restricted to the runs of create_snap-v20240811.py
\* without a failed detail lookup, and to create_snapy.py.
V_C26 == V_NoDetailFailure => C26_StuckCreationStalls
Y_C26 == Y => C26_StuckCreationStalls

\* C27: CustomSpinner imported from validate_snapshot and called with one
\* positional argument is created without error and its style is
\* "aesthetic": the test ends passed.
C27_SpinnerStyle ==
    (/\ test.module = "validate_snapshot"
     /\ Len(test.args) = 1
     /\ test.pc \notin {"import", "construct", "assert"})
        => test.pc = "passed"

\* The same statement for the module that defines CustomSpinner.
P_C27 ==
    (/\ test.module = "validate_snapshot_promax"
     /\ test.args = <<"test_spinner">>
     /\ test.pc \notin {"import", "construct", "assert"})
        => test.pc = "passed"

\* C28: a create command has been issued for an input record only if the
\* detail lookup of that record returned exit status 0 with its details, and
\* the command names the resource group and disk returned by that lookup; a
\* record whose lookup failed has no create command.
C28_CreateAfterOwnLookup ==
    \A i \in Idx :
        cre_issued[i] > 0 =>
            /\ det_res[i] = "ok"
            /\ cre_args[i] = Details(vm_list[i])

\* A finished run in which two records of one subscription were created, each
\* from its own details, and a record whose lookup failed has no command.
C28_Witness ==
    /\ pc = "done"
    /\ \E i, j \in Idx :
          /\ i # j
          /\ cre_issued[i] > 0 /\ cre_issued[j] > 0
          /\ cre_args[i] # cre_args[j]
          /\ SubscriptionOf(vm_list[i]) = SubscriptionOf(vm_list[j])
    /\ \E k \in Idx : det_issued[k] > 0 /\ det_res[k] # "ok" /\ cre_issued[k] = 0

\* The subscription the az CLI works in: the one named by the last
\* "az account set" that returned exit status 0 ("none" before the first).
Switched == {g \in GroupIdx : sw_res[g] = "ok"}
ActiveSubscription ==
    IF Switched = {} THEN "none"
    ELSE grouped_vms[CHOOSE g \in Switched : \A h \in Switched : h <= g].key

\* an "az account set" is in flight and names subscription s
SwitchInFlight(s) == pc = "switch_wait" /\ CurGroup.key = s

\* the lookup of line i is in flight; line i has a dispatched process_vm call
\* whose create command is still to be issued or has not yet returned
LookupInFlight(i) == pc = "detail_wait" /\ gi \in GroupIdx /\ CurVM = i
CreationDue(i) == task[i] \in {"ready", "creating"}

\* C29: while the lookup of a VM is in flight, or the create command of a
\* dispatched VM is in flight or still to be issued, the active subscription
\* is that VM's subscription and no "az account set" naming another
\* subscription is in flight.
C29_CommandsInOwnContext ==
    \A i \in Idx :
        (LookupInFlight(i) \/ CreationDue(i)) =>
            /\ ActiveSubscription = SubscriptionOf(vm_list[i])
            /\ \A s \in Subs \ {SubscriptionOf(vm_list[i])} : ~SwitchInFlight(s)

\* The same statement for the runs of create_snap-v20240811.py without a
\* failed detail lookup, and for create_snapy.py.
V_C29 == (V /\ V_NoDetailFailure) => C29_CommandsInOwnContext
Y_C29 == Y => C29_CommandsInOwnContext

\* A create command in flight in its own subscription, after a switch.
C29_InContext ==
    \E i \in Idx :
        /\ task[i] = "creating"
        /\ gi > 1
        /\ ActiveSubscription = SubscriptionOf(vm_list[i])

\* C30: once the summary is reported, the total of its table and of its file
\* is the number of input records and the sum of the reported successes and
\* failures, and the two collections stay as long as they were reported.
C30_SummaryAddsUp ==
    summary.reported =>
        /\ summary.table_total = Len(vm_list)
        /\ summary.file_total = Len(vm_list)
        /\ summary.table_total = summary.successful + summary.failed
        /\ Len(successful_snapshots) = summary.successful
        /\ Len(failed_snapshots) = summary.failed

\* The same statement for the runs of create_snap-v20240811.py without a
\* failed detail lookup, and for create_snapy.py.
V_C30 == (V /\ V_NoDetailFailure) => C30_SummaryAddsUp
Y_C30 == Y => C30_SummaryAddsUp

\* A summary of a run with both kinds of outcome whose counts add up.
C30_AddsUp ==
    /\ pc = "done"
    /\ summary.reported
    /\ summary.successful > 0
    /\ summary.failed > 0
    /\ summary.table_total = summary.successful + summary.failed
    /\ Len(vm_list) = MaxVMs

\* C31: a run of main starts with both outcome collections empty, so that the
\* collections and counts of a second run in the same process hold outcomes
\* of that run alone.
C31_RunsStartEmpty ==
    /\ started.successful = 0
    /\ started.failed = 0

\* The first run of a process does start with empty collections.
C31_FirstRun == run = 1 => C31_RunsStartEmpty

\* The summary of a second run over one record reports more outcomes than
\* the run has records.
C31_Leak ==
    /\ run = 2
    /\ summary.reported
    /\ summary.successful + summary.failed > Len(vm_list)

\* the lines of s at the positions in I, from position k on, in their order
RECURSIVE Pick(_, _, _)
Pick(s, I, k) ==
    IF k > Len(s) THEN <<>>
    ELSE (IF k \in I THEN <<s[k]>> ELSE <<>>) \o Pick(s, I, k + 1)

\* a and b are the lines of all at a set of positions and at the other
\* positions, each in the order of all
IsSplit(all, a, b) ==
    \E I \in SUBSET (1..Len(all)) :
        /\ a = Pick(all, I, 1)
        /\ b = Pick(all, (1..Len(all)) \ I, 1)

\* C32: after move_invalid_snapshots every line of the original list is in
\* exactly one of the rewritten list file and the invalid file, and each file
\* keeps the relative order of its lines.
C32_SplitWithoutLoss ==
    val.pc = "moved" => IsSplit(val.snapshot_ids, val.list_file, val.invalid_file)

\* A list of three lines split into two non-empty files.
C32_Witness ==
    /\ val.pc = "moved"
    /\ Len(val.snapshot_ids) = MaxListLen
    /\ val.list_file # <<>>
    /\ val.invalid_file # <<>>
    /\ Len(val.list_file) + Len(val.invalid_file) = MaxListLen

\* the positions of the lines whose own validation found (e = TRUE) or did
\* not find (e = FALSE) the snapshot
OwnResult(e) == {i \in 1..Len(val.snapshot_ids) : val.validated_snapshots[i].exists = e}

\* C33: after move_invalid_snapshots the list file holds exactly the lines
\* whose own validation found the snapshot, and the invalid file exactly the
\* lines whose own validation did not.
C33_FilesFollowValidation ==
    val.pc = "moved" =>
        /\ val.list_file = Pick(val.snapshot_ids, OwnResult(TRUE), 1)
        /\ val.invalid_file = Pick(val.snapshot_ids, OwnResult(FALSE), 1)

\* no two lines of the list have the same name before the last underscore
NamesApart ==
    \A i, j \in 1..Len(val.snapshot_ids) :
        i # j => extract_snapshot_name(val.snapshot_ids[i])
                    # extract_snapshot_name(val.snapshot_ids[j])

\* validate_snap_v2.2.0.py on a list whose names differ before the last
\* underscore does split by the own result of each line.
V22_C33 ==
    (val.script = "validate_snap_v2.2.0" /\ NamesApart) => C33_FilesFollowValidation

\* validate_snapy.py moves a snapshot that was found to the invalid file
\* although no other line shares its name.
VS_FoundMovedOut ==
    /\ val.script = "validate_snapy"
    /\ val.pc = "moved"
    /\ NamesApart
    /\ \E i \in OwnResult(TRUE) :
          \E k \in 1..Len(val.invalid_file) : val.invalid_file[k] = val.snapshot_ids[i]

\* the validation phase is over
Validated == val.pc \in {"summary", "moved", "done"}

\* C34: the validation phase yields one result per line of the list, the
\* result at position i being that of line i whatever the order in which the
\* show commands ended; a line whose command failed, answered with text
\* that is no JSON or raised has exists = FALSE, the other lines keep their
\* results, and the valid and invalid counts add up to the total.
C34_OneResultPerLine ==
    Validated =>
        /\ Len(val.validated_snapshots) = Len(val.snapshot_ids)
        /\ \A i \in 1..Len(val.snapshot_ids) :
              /\ val.validated_snapshots[i] = val.result[i]
              /\ val.validated_snapshots[i].exists = (val.resp[i] = "found")
              /\ val.validated_snapshots[i].name \in
                    {val.snapshot_ids[i][2], extract_snapshot_name(val.snapshot_ids[i])}
        /\ val.total_snapshots = Len(val.snapshot_ids)
        /\ val.valid + val.invalid = val.total_snapshots

\* Three lines whose commands ended in the reverse order, one found, one
\* answered with text that is no JSON and one that could not be started.
C34_Witness ==
    /\ Validated
    /\ val.finished = <<3, 2, 1>>
    /\ val.resp = <<"found", "unparsable", "oserror">>
    /\ val.valid = 1
    /\ val.invalid = 2
====
